---- MODULE Spec2Model ----
(***************************************************************************)
(* A model of the SoundCloud scraper: SoundCloudDownloader                 *)
(* (src/scraper-to-html.py) and SoundCloudHTMLPageGenerator                *)
(* (src/HTML_page_generator.py).                                           *)
(*                                                                         *)
(* Strings.  A URL is a sequence of chunks (strings); a text is a sequence *)
(* of whitespace-separated tokens, each token a sequence of chunks.  A     *)
(* file name is a sequence of Unicode code points, so that lower(),        *)
(* endswith(), splitext() and NFC are computed, not assumed.  Python's     *)
(* None for a missing cover is the empty sequence (both are falsy).        *)
(* The network, the scdl tool and the ID3 tags are the environment: each   *)
(* action draws their outcome from the outcomes they can have.             *)
(***************************************************************************)
EXTENDS Integers, Sequences, FiniteSets, TLC

VARIABLES
    pc,               \* position in process_strings / the stage under study
    strings,          \* the argument of process_strings
    soundcloud_links, \* self._soundcloud_links
    download_results, \* self._download_results
    output_dir,       \* os.listdir(self.output_dir)
    img_dir,          \* os.listdir(self.img_dir)
    link_idx,         \* number of links _download_tracks has processed
    resolve_log,      \* history: per link of _resolve_short_links, what happened
    download_log,     \* history: per iteration of _download_tracks, its locals
    zip_entries,      \* the members of all_tracks.zip, in the order written
    html_page,        \* what _generate_html_page wrote to index.html
    gen_results,      \* SoundCloudHTMLPageGenerator.download_results
    all_mp3_files,    \* SoundCloudHTMLPageGenerator.all_mp3_files
    ordered_tracks,   \* SoundCloudHTMLPageGenerator.ordered_tracks
    rendered,         \* what the generator's _write_html wrote to index.html
    gen_calls         \* history: number of generate_html_page calls

dl_vars == <<pc, strings, soundcloud_links, download_results, output_dir, img_dir,
             link_idx, resolve_log, download_log, zip_entries, html_page>>
gen_vars == <<gen_results, all_mp3_files, ordered_tracks, rendered, gen_calls>>
vars == <<dl_vars, gen_vars>>

(***************************************************************************)
(* Bounds                                                                  *)
(***************************************************************************)
MaxStrings == 2
MaxLinks == 2
MaxGenLinks == 2
MaxGenTracks == 2
MaxCalls == 3

(***************************************************************************)
(* Generic helpers                                                         *)
(***************************************************************************)
Range(s) == {s[i] : i \in DOMAIN s}

SeqsUpTo(S, n) == UNION {[1..k -> S] : k \in 0..n}

\* Every list holding each element of the set S exactly once.
ListsOfSet(S) ==
    {s \in [1..Cardinality(S) -> S] : \A i, j \in 1..Cardinality(S) : s[i] = s[j] => i = j}

RECURSIVE Concat(_)
Concat(ss) == IF ss = <<>> THEN <<>> ELSE Head(ss) \o Concat(Tail(ss))

(***************************************************************************)
(* URLs and input texts                                                    *)
(***************************************************************************)
ShortA == <<"https://", "on.soundcloud.com", "/", "a">>
ShortB == <<"http://", "on.soundcloud.com", "/", "b">>
CanonA == <<"https://", "soundcloud.com", "/", "a">>
CanonB == <<"https://", "soundcloud.com", "/", "b">>
\* a canonical-host link whose query mentions the short host
CanonRef == <<"https://", "soundcloud.com", "/", "a", "?ref=", "on.soundcloud.com">>

Texts ==
    { << <<"A2">>, <<"-">> >>,
      << <<"A2">>, <<"-">>, ShortA >>,
      << CanonA, ShortB >>,
      << <<"(">> \o CanonRef >>,
      << ShortA, <<"B1">>, CanonA >>,
      << <<"https://", "example.com", "/", "a">>, <<"https://", "soundcloud.com", "/">> >> }

\* The links _extract_soundcloud_links can leave in self._soundcloud_links.
ExtractedLinks == {ShortA, ShortB, CanonA, CanonRef}

\* The URLs a redirect chain may end at, besides the requested one.
RedirectTargets == {CanonA, CanonB}

\* What self._soundcloud_links can hold when _download_tracks starts.
ResolvedLinks == {CanonA, ShortA}

(***************************************************************************)
(* File names                                                              *)
(***************************************************************************)
X_MP3 == <<120, 46, 77, 80, 51>>                 \* "x.MP3"
E_NFC_mp3 == <<233, 46, 109, 112, 51>>           \* "e-acute.mp3", NFC (U+00E9)
E_NFD_mp3 == <<101, 769, 46, 109, 112, 51>>      \* "e-acute.mp3", NFD (e, U+0301)
N_txt == <<110, 46, 116, 120, 116>>              \* "n.txt"
IMG == <<105, 109, 103>>                         \* "img"
ALL_TRACKS_ZIP ==                                \* "all_tracks.zip"
    <<97, 108, 108, 95, 116, 114, 97, 99, 107, 115, 46, 122, 105, 112>>
INDEX_HTML == <<105, 110, 100, 101, 120, 46, 104, 116, 109, 108>>   \* "index.html"
PLAYALL_JS == <<112, 108, 97, 121, 65, 108, 108, 46, 106, 115>>     \* "playAll.js"

\* The files the download tool can write and a previous run can have left.
Files == {X_MP3, E_NFC_mp3, E_NFD_mp3, N_txt}

Lower(name) == [i \in DOMAIN name |-> IF name[i] \in 65..90 THEN name[i] + 32 ELSE name[i]]

EndsWith(name, suffix) ==
    /\ Len(name) >= Len(suffix)
    /\ SubSeq(name, Len(name) - Len(suffix) + 1, Len(name)) = suffix

\* f.lower().endswith(".mp3")
IsMp3(f) == EndsWith(Lower(f), <<46, 109, 112, 51>>)

\* os.path.splitext(name)[0]: the name up to its last dot (a leading dot is no extension)
SplitExtRoot(name) ==
    LET dots == {i \in DOMAIN name : name[i] = 46 /\ i > 1}
    IN  IF dots = {} THEN name
        ELSE SubSeq(name, 1, (CHOOSE i \in dots : \A j \in dots : j <= i) - 1)

(***************************************************************************)
(* _extract_soundcloud_links                                               *)
(***************************************************************************)
\* The pattern https?://(?:on\.soundcloud\.com|soundcloud\.com)/[^\s]+ at chunk i of a token
PatternAt(tok, i) ==
    /\ i + 3 <= Len(tok)
    /\ tok[i] \in {"http://", "https://"}
    /\ tok[i + 1] \in {"on.soundcloud.com", "soundcloud.com"}
    /\ tok[i + 2] = "/"

\* re.findall on one token: [^\s]+ runs to the token's end, so at most one match
FindAllToken(tok) ==
    LET starts == {i \in DOMAIN tok : PatternAt(tok, i)}
    IN  IF starts = {} THEN <<>>
        ELSE <<SubSeq(tok, CHOOSE i \in starts : \A j \in starts : i <= j, Len(tok))>>

\* re.findall(pattern, text)
FindAll(text) == Concat([i \in DOMAIN text |-> FindAllToken(text[i])])

\* found_links after the loop over strings
FoundLinks(strs) == Concat([i \in DOMAIN strs |-> FindAll(strs[i])])

\* list(set(found_links)): no duplicates, in the iteration order of a set of
\* strings, which string hashing leaves open
ListOfSet(found) == ListsOfSet(Range(found))

ExtractSoundcloudLinks ==
    /\ pc = "extract"
    /\ \E links \in ListOfSet(FoundLinks(strings)) : soundcloud_links' = links
    /\ pc' = "resolve"
    /\ UNCHANGED <<strings, download_results, output_dir, img_dir, link_idx,
                   resolve_log, download_log, zip_entries, html_page>>
    /\ UNCHANGED gen_vars

(***************************************************************************)
(* _resolve_short_links                                                    *)
(***************************************************************************)
\* "on.soundcloud.com" in link
IsShortLink(link) == \E i \in DOMAIN link : link[i] = "on.soundcloud.com"

NoRequest == [kind |-> "none", url |-> <<>>]

\* requests.head(link, allow_redirects=True): a response whose url is the end of
\* the redirect chain, whatever its status, or a RequestException
HeadOutcomes(link) ==
    {[kind |-> k, url |-> u] : k \in {"ok", "non2xx"}, u \in {link} \cup RedirectTargets}
    \cup {[kind |-> k, url |-> <<>>] : k \in {"timeout", "dns", "redirects"}}

\* except requests.RequestException
IsRequestException(outcome) == outcome.kind \in {"timeout", "dns", "redirects"}

\* the link appended to resolved_links
ResolvedLink(link, outcome) ==
    IF IsShortLink(link)
    THEN IF IsRequestException(outcome) THEN link ELSE outcome.url
    ELSE link

ResolveShortLinks ==
    /\ pc = "resolve"
    /\ \E outs \in [DOMAIN soundcloud_links ->
                       {NoRequest} \cup UNION {HeadOutcomes(l) : l \in Range(soundcloud_links)}] :
          /\ \A i \in DOMAIN soundcloud_links :
                outs[i] \in IF IsShortLink(soundcloud_links[i])
                            THEN HeadOutcomes(soundcloud_links[i])
                            ELSE {NoRequest}
          /\ soundcloud_links' =
                [i \in DOMAIN soundcloud_links |-> ResolvedLink(soundcloud_links[i], outs[i])]
          /\ resolve_log' =
                [i \in DOMAIN soundcloud_links |->
                    [link |-> soundcloud_links[i], outcome |-> outs[i]]]
    /\ pc' = IF soundcloud_links = <<>> THEN "zip" ELSE "download"
    /\ UNCHANGED <<strings, download_results, output_dir, img_dir, link_idx,
                   download_log, zip_entries, html_page>>
    /\ UNCHANGED gen_vars

(***************************************************************************)
(* _download_tracks, _run_scdl_command, _extract_image                     *)
(***************************************************************************)
\* How subprocess.run(cmd, check=True) can end: exit status 0, a non-zero exit
\* status (CalledProcessError), or no scdl executable (FileNotFoundError).
ScdlOutcomes == {"exit0", "nonzero", "missing"}

\* a faulty variant: _run_scdl_command without its try/except
RunScdlRaisesUncaught(outcome) == outcome \in {"missing", "nonzero"}

\* _run_scdl_command catches subprocess.CalledProcessError only
RunScdlRaises(outcome) == outcome = "missing"

\* a faulty variant: the listing after the run, files_before not subtracted
NewFilesNoDiff(files_before, files_after) == files_after

\* new_files = files_after - files_before
NewFiles(files_before, files_after) == files_after \ files_before

\* mp3_files = [f for f in new_files if f.lower().endswith(".mp3")], in the
\* iteration order of the set new_files
Mp3Files(new_files) == ListsOfSet({f \in new_files : IsMp3(f)})

\* a faulty variant: the entry is appended whether or not mp3_files is empty
RecordsLinkAlways(mp3_files) == TRUE

\* if mp3_files: the link gets an entry of self._download_results
RecordsLink(mp3_files) == mp3_files # <<>>

\* The ID3 tag of each audio file the tool can write: the mime type of its first
\* APIC frame, "none" without one, "corrupt" when ID3() raises.
ApicOf(mp3_file) ==
    IF mp3_file = X_MP3 THEN "image/png"
    ELSE IF mp3_file = E_NFC_mp3 THEN "none"
    ELSE "corrupt"

\* _extract_image: the image file name, or None
ExtractImage(mp3_file) ==
    LET mime == ApicOf(mp3_file)
        extension == IF mime = "image/jpeg" THEN <<46, 106, 112, 103>>
                     ELSE IF mime = "image/png" THEN <<46, 112, 110, 103>>
                     ELSE <<46, 106, 112, 103>>
    IN  IF mime \in {"none", "corrupt"} THEN <<>>
        ELSE SplitExtRoot(mp3_file) \o extension

\* One iteration of the loop of _download_tracks, the scdl run included.
DownloadLink ==
    /\ pc = "download"
    /\ link_idx < Len(soundcloud_links)
    /\ LET link == soundcloud_links[link_idx + 1]
           files_before == output_dir
       IN  \E outcome \in ScdlOutcomes :
           \E written \in SUBSET (Files \ output_dir) :
              /\ outcome = "missing" => written = {}
              /\ output_dir' = output_dir \cup written
              /\ IF RunScdlRaises(outcome)
                 THEN /\ pc' = "aborted"
                      /\ download_log' = Append(download_log,
                            [link |-> link, outcome |-> outcome,
                             files_before |-> files_before, files_after |-> output_dir',
                             n_results |-> Len(download_results)])
                      /\ UNCHANGED <<download_results, img_dir, link_idx>>
                 ELSE LET files_after == output_dir'
                          new_files == NewFiles(files_before, files_after)
                      IN  \E mp3_files \in Mp3Files(new_files) :
                             LET track_data == [i \in DOMAIN mp3_files |->
                                     <<mp3_files[i], ExtractImage(mp3_files[i])>>]
                             IN  /\ download_results' =
                                       IF RecordsLink(mp3_files)
                                       THEN Append(download_results, <<link, track_data>>)
                                       ELSE download_results
                                 /\ img_dir' = img_dir \cup
                                       ({track_data[i][2] : i \in DOMAIN track_data} \ {<<>>})
                                 /\ download_log' = Append(download_log,
                                       [link |-> link, outcome |-> outcome,
                                        files_before |-> files_before,
                                        files_after |-> files_after,
                                        n_results |-> Len(download_results')])
                                 /\ link_idx' = link_idx + 1
                                 /\ pc' = IF link_idx' = Len(soundcloud_links)
                                          THEN "zip" ELSE "download"
    /\ UNCHANGED <<strings, soundcloud_links, resolve_log, zip_entries, html_page>>
    /\ UNCHANGED gen_vars

(***************************************************************************)
(* _create_zip, _generate_html_page, _copy_js_to_output_dir                *)
(***************************************************************************)
\* The tracks of a download result, in iteration order: the outer loop over
\* its entries, the inner loop over the entry's track_data.
RECURSIVE TracksOf(_)
TracksOf(results) ==
    IF results = <<>> THEN <<>>
    ELSE [i \in DOMAIN results[1][2] |->
             [link |-> results[1][1],
              mp3_file |-> results[1][2][i][1],
              image_file |-> results[1][2][i][2]]]
         \o TracksOf(Tail(results))

\* a faulty variant: every audio file of the output directory is archived
ZipMembersOfListing(results, listing) ==
    CHOOSE members \in ListsOfSet({f \in listing : IsMp3(f)}) : TRUE

\* the arcnames _create_zip writes, in order
ZipMembers(results, listing) ==
    [i \in DOMAIN TracksOf(results) |-> TracksOf(results)[i].mp3_file]

CreateZip ==
    /\ pc = "zip"
    /\ zip_entries' = ZipMembers(download_results, output_dir)
    /\ output_dir' = output_dir \cup {ALL_TRACKS_ZIP}
    /\ pc' = "html"
    /\ UNCHANGED <<strings, soundcloud_links, download_results, img_dir, link_idx,
                   resolve_log, download_log, html_page>>
    /\ UNCHANGED gen_vars

NoPage == [written |-> FALSE, zip_link |-> FALSE, sections |-> <<>>, allTracks |-> <<>>]

\* the page _generate_html_page of the downloader writes
DownloaderPage(results, listing) ==
    [written |-> TRUE,
     zip_link |-> ALL_TRACKS_ZIP \in listing,
     sections |-> [i \in DOMAIN TracksOf(results) |->
                      [title |-> SplitExtRoot(TracksOf(results)[i].mp3_file),
                       image_file |-> TracksOf(results)[i].image_file,
                       mp3_file |-> TracksOf(results)[i].mp3_file,
                       link |-> TracksOf(results)[i].link]],
     allTracks |-> [i \in DOMAIN TracksOf(results) |-> TracksOf(results)[i].mp3_file]]

GenerateHtmlPage ==
    /\ pc = "html"
    /\ html_page' = DownloaderPage(download_results, output_dir)
    /\ output_dir' = output_dir \cup {INDEX_HTML}
    /\ pc' = "copyjs"
    /\ UNCHANGED <<strings, soundcloud_links, download_results, img_dir, link_idx,
                   resolve_log, download_log, zip_entries>>
    /\ UNCHANGED gen_vars

\* shutil.copy of playAll.js: every failure is caught and logged
CopyJsToOutputDir ==
    /\ pc = "copyjs"
    /\ \E copied \in BOOLEAN :
          output_dir' = IF copied THEN output_dir \cup {PLAYALL_JS} ELSE output_dir
    /\ pc' = "done"
    /\ UNCHANGED <<strings, soundcloud_links, download_results, img_dir, link_idx,
                   resolve_log, download_log, zip_entries, html_page>>
    /\ UNCHANGED gen_vars

(***************************************************************************)
(* SoundCloudHTMLPageGenerator                                             *)
(***************************************************************************)
\* f"track-{track_count}"
AnchorId(track_count) == [prefix |-> "track-", n |-> track_count]

\* self.all_mp3_files after _collect_ordered_tracks
CollectedMp3Files(mp3s, results) ==
    mp3s \o [i \in DOMAIN TracksOf(results) |-> TracksOf(results)[i].mp3_file]

\* self.ordered_tracks after _collect_ordered_tracks: track_count starts at 1
\* on every call
CollectedTracks(tracks, results) ==
    tracks \o [i \in DOMAIN TracksOf(results) |->
                  [anchor_id |-> AnchorId(i),
                   mp3_file |-> TracksOf(results)[i].mp3_file,
                   image_file |-> TracksOf(results)[i].image_file,
                   title |-> SplitExtRoot(TracksOf(results)[i].mp3_file),
                   link |-> TracksOf(results)[i].link]]

NoRender == [written |-> FALSE, zip_exists |-> FALSE, ordered_tracks |-> <<>>,
             all_mp3_files |-> <<>>]

\* template.render(...) of _write_html
RenderedPage(listing, tracks, mp3s) ==
    [written |-> TRUE, zip_exists |-> ALL_TRACKS_ZIP \in listing,
     ordered_tracks |-> tracks, all_mp3_files |-> mp3s]

\* generate_html_page: _collect_ordered_tracks, then _write_html
GeneratorGenerateHtmlPage ==
    /\ pc = "generator"
    /\ gen_calls < MaxCalls
    /\ all_mp3_files' = CollectedMp3Files(all_mp3_files, gen_results)
    /\ ordered_tracks' = CollectedTracks(ordered_tracks, gen_results)
    /\ rendered' = RenderedPage(output_dir, ordered_tracks', all_mp3_files')
    /\ output_dir' = output_dir \cup {INDEX_HTML}
    /\ gen_calls' = gen_calls + 1
    /\ UNCHANGED <<pc, strings, soundcloud_links, download_results, img_dir, link_idx,
                   resolve_log, download_log, zip_entries, html_page, gen_results>>

(***************************************************************************)
(* Initial states and specifications                                       *)
(***************************************************************************)
\* SoundCloudDownloader.__init__, but for self._soundcloud_links and the directory
Constructed ==
    /\ download_results = <<>>
    /\ img_dir = {}
    /\ link_idx = 0
    /\ resolve_log = <<>>
    /\ download_log = <<>>
    /\ zip_entries = <<>>
    /\ html_page = NoPage

NoGenerator ==
    /\ gen_results = <<>>
    /\ all_mp3_files = <<>>
    /\ ordered_tracks = <<>>
    /\ rendered = NoRender
    /\ gen_calls = 0

\* The output directories a run can start in: img/ and what earlier runs left.
StartDirs == {{IMG} \cup prior : prior \in SUBSET Files}

\* _extract_soundcloud_links alone, on every bounded input of process_strings
InitExtract ==
    /\ Constructed
    /\ NoGenerator
    /\ pc = "extract"
    /\ soundcloud_links = <<>>
    /\ strings \in SeqsUpTo(Texts, MaxStrings)
    /\ output_dir = {IMG}

NextExtract == ExtractSoundcloudLinks

SpecExtract == InitExtract /\ [][NextExtract]_vars

\* process_strings(strings) on a new downloader, from its first statement to its
\* last, on the inputs that hold at most MaxLinks links
Init ==
    /\ InitExtract
    /\ Len(FoundLinks(strings)) <= MaxLinks

Next ==
    \/ ExtractSoundcloudLinks
    \/ ResolveShortLinks
    \/ DownloadLink
    \/ CreateZip
    \/ GenerateHtmlPage
    \/ CopyJsToOutputDir

Spec == Init /\ [][Next]_vars

\* _resolve_short_links alone, entered with any list _extract_soundcloud_links
\* can leave: links that match the pattern, no two equal
InitResolve ==
    /\ Constructed
    /\ NoGenerator
    /\ pc = "resolve"
    /\ strings = <<>>
    /\ output_dir = {IMG}
    /\ soundcloud_links \in
          {l \in SeqsUpTo(ExtractedLinks, MaxLinks) :
              \A i, j \in DOMAIN l : l[i] = l[j] => i = j}

NextResolve == ResolveShortLinks

SpecResolve == InitResolve /\ [][NextResolve]_vars

\* _download_tracks and what follows it, entered with any list
\* _resolve_short_links can leave and any output directory
InitDownload ==
    /\ Constructed
    /\ NoGenerator
    /\ strings = <<>>
    /\ soundcloud_links \in SeqsUpTo(ResolvedLinks, MaxLinks)
    /\ pc = IF soundcloud_links = <<>> THEN "zip" ELSE "download"
    /\ output_dir \in StartDirs

NextDownload ==
    \/ DownloadLink
    \/ CreateZip
    \/ GenerateHtmlPage
    \/ CopyJsToOutputDir

SpecDownload == InitDownload /\ [][NextDownload]_vars

\* A SoundCloudHTMLPageGenerator built on a download result
GenTracks == {<<X_MP3, ExtractImage(X_MP3)>>, <<E_NFC_mp3, ExtractImage(E_NFC_mp3)>>}

GenResults ==
    SeqsUpTo({<<link, track_data>> :
                 link \in {CanonA, CanonB}, track_data \in SeqsUpTo(GenTracks, MaxGenTracks)},
             MaxGenLinks)

InitGen ==
    /\ Constructed
    /\ pc = "generator"
    /\ soundcloud_links = <<>>
    /\ strings = <<>>
    /\ output_dir \in {{IMG}, {IMG, ALL_TRACKS_ZIP}}
    /\ gen_results \in GenResults
    /\ all_mp3_files = <<>>
    /\ ordered_tracks = <<>>
    /\ rendered = NoRender
    /\ gen_calls = 0

NextGen == GeneratorGenerateHtmlPage

SpecGen == InitGen /\ [][NextGen]_vars

(***************************************************************************)
(* Properties of _extract_soundcloud_links                                 *)
(***************************************************************************)
\* The places of the input where a link is matched: <<string index, token index>>
OccurrencesOf(link) ==
    {p \in UNION {{<<i, j>> : j \in DOMAIN strings[i]} : i \in DOMAIN strings} :
        FindAllToken(strings[p[1]][p[2]]) = <<link>>}

Before(p, q) == p[1] < q[1] \/ (p[1] = q[1] /\ p[2] < q[2])

\* some occurrence of link a precedes every occurrence of link b
FirstSeenBefore(a, b) ==
    \E p \in OccurrencesOf(a) : \A q \in OccurrencesOf(b) : Before(p, q)

\* C1: the extracted link list holds no two equal strings, holds exactly the
\* links that occur in the input, and lists them in the order of their first
\* occurrence across the whole input sequence.
C1_LinksInFirstOccurrenceOrder ==
    pc = "resolve" =>
        /\ \A i, j \in DOMAIN soundcloud_links :
              soundcloud_links[i] = soundcloud_links[j] => i = j
        /\ \A i \in DOMAIN soundcloud_links : OccurrencesOf(soundcloud_links[i]) # {}
        /\ \A l \in ExtractedLinks : OccurrencesOf(l) # {} => l \in Range(soundcloud_links)
        /\ \A i, j \in DOMAIN soundcloud_links :
              i < j => FirstSeenBefore(soundcloud_links[i], soundcloud_links[j])

(***************************************************************************)
(* Properties of _resolve_short_links                                      *)
(***************************************************************************)
\* the host of a URL
Host(link) == link[2]

Resolved == pc \in {"download", "zip"}

\* C2: the resolved list is as long as the list given, and every link whose
\* host is soundcloud.com stays unchanged at its position and causes no HTTP
\* request, whatever its path or query holds.
C2_CanonicalLinksPassThrough ==
    Resolved =>
        /\ Len(soundcloud_links) = Len(resolve_log)
        /\ \A i \in DOMAIN resolve_log :
              Host(resolve_log[i].link) = "soundcloud.com" =>
                  /\ soundcloud_links[i] = resolve_log[i].link
                  /\ resolve_log[i].outcome = NoRequest

\* C3: a short-form link whose resolution ends in a transport error (timeout,
\* DNS failure, non-2xx terminal response, malformed redirect chain) keeps its
\* place and its text, and the other short-form links are still resolved.
C3_FailedResolutionKeepsShortLink ==
    Resolved =>
        /\ Len(soundcloud_links) = Len(resolve_log)
        /\ \A i \in DOMAIN resolve_log :
              Host(resolve_log[i].link) = "on.soundcloud.com" =>
                  /\ resolve_log[i].outcome.kind \in {"timeout", "dns", "non2xx", "redirects"}
                        => soundcloud_links[i] = resolve_log[i].link
                  /\ resolve_log[i].outcome.kind = "ok"
                        => soundcloud_links[i] = resolve_log[i].outcome.url

(***************************************************************************)
(* Properties of _download_tracks                                          *)
(***************************************************************************)
\* Len(self._download_results) when iteration k began
ResultsBefore(k) == IF k = 1 THEN 0 ELSE download_log[k - 1].n_results

\* the track list iteration k added to self._download_results, <<>> if it added none
Contribution(k) ==
    IF download_log[k].n_results > ResultsBefore(k)
    THEN download_results[download_log[k].n_results][2]
    ELSE <<>>

\* the files attributed to the link of iteration k
Attributed(k) == {Contribution(k)[i][1] : i \in DOMAIN Contribution(k)}

\* the audio files in the listing after the run of iteration k and not in the
\* listing before it
NewAudio(k) ==
    {f \in download_log[k].files_after :
        f \notin download_log[k].files_before /\ IsMp3(f)}

\* C4: the tracks attributed to a link are exactly the audio files (extension
\* .mp3, in any case) in the listing taken after the tool's run and not in the
\* one taken before; a file present before is never attributed, and no file
\* is attributed to two links of the run.
C4_AttributionIsDirectoryDiff ==
    /\ \A k \in DOMAIN download_log :
          /\ Attributed(k) = NewAudio(k)
          /\ Attributed(k) \cap download_log[k].files_before = {}
          /\ Len(Contribution(k)) = Cardinality(Attributed(k))
          /\ Contribution(k) # <<>> =>
                download_results[download_log[k].n_results][1] = download_log[k].link
    /\ \A k1, k2 \in DOMAIN download_log :
          k1 # k2 => Attributed(k1) \cap Attributed(k2) = {}

\* C4 witness: the tool left two audio files of which the directory held one
\* before the run, and only the other is attributed; a later link was processed.
C4_Witness ==
    \E k \in DOMAIN download_log :
        /\ k < Len(download_log)
        /\ \E f \in download_log[k].files_before : IsMp3(f)
        /\ Cardinality(Attributed(k)) = 1
        /\ Attributed(k + 1) # {}

\* C5 as stated: a link whose tool run exits non-zero contributes zero tracks,
\* and the loop goes on to the next link.
C5_NonZeroExitContributesNothing ==
    \A k \in DOMAIN download_log :
        download_log[k].outcome = "nonzero" =>
            /\ Contribution(k) = <<>>
            /\ link_idx >= k

\* C5 amended: a link whose tool run exits non-zero contributes exactly the
\* new audio files the directory diff finds (none only if the tool wrote
\* none), and the loop goes on to the next link.
C5_NonZeroExitContributesDiff ==
    \A k \in DOMAIN download_log :
        download_log[k].outcome = "nonzero" =>
            /\ Attributed(k) = NewAudio(k)
            /\ link_idx >= k
            /\ (pc = "aborted" => k < Len(download_log))

\* C5 witness: a run that exited non-zero after writing an audio file, which is
\* attributed to its link, and a later link was processed.
C5_Witness ==
    \E k \in DOMAIN download_log :
        /\ download_log[k].outcome = "nonzero"
        /\ Attributed(k) # {}
        /\ k < Len(download_log)

Downloaded == pc \in {"zip", "html", "copyjs", "done"}

RECURSIVE NFC(_)
NFC(name) ==
    IF name = <<>> THEN <<>>
    ELSE IF Len(name) >= 2 /\ name[1] = 101 /\ name[2] = 769
         THEN <<233>> \o NFC(Tail(Tail(name)))
         ELSE <<name[1]>> \o NFC(Tail(name))

\* C7: no two tracks of the download result have the same NFC file name.
C7_CanonicalNamesUnique ==
    \A i, j \in DOMAIN TracksOf(download_results) :
        NFC(TracksOf(download_results)[i].mp3_file) =
        NFC(TracksOf(download_results)[j].mp3_file) => i = j

(***************************************************************************)
(* Properties of _create_zip                                               *)
(***************************************************************************)
\* the number of tracks in the first n entries of a download result
RECURSIVE TrackCount(_, _)
TrackCount(results, n) ==
    IF n = 0 THEN 0 ELSE TrackCount(results, n - 1) + Len(results[n][2])

Zipped == pc \in {"html", "copyjs", "done"}

\* C8: after _create_zip the archive holds the audio files of the download
\* result and nothing else (no cover, not the archive, no audio file of the
\* directory that the result lacks), in download-result order.
C8_ZipHoldsExactlyResultTracks ==
    Zipped =>
        /\ Len(zip_entries) = TrackCount(download_results, Len(download_results))
        /\ \A a \in DOMAIN download_results :
              \A b \in DOMAIN download_results[a][2] :
                 zip_entries[TrackCount(download_results, a - 1) + b]
                     = download_results[a][2][b][1]
        /\ Range(zip_entries) \cap (img_dir \cup {ALL_TRACKS_ZIP}) = {}
        /\ \A f \in output_dir :
              f \in Range(zip_entries) <=>
                 \E a \in DOMAIN download_results :
                    \E b \in DOMAIN download_results[a][2] :
                       download_results[a][2][b][1] = f

\* C8 witness: an archive of two tracks from two links, beside an audio file of
\* an earlier run that is not in it and a cover in img/.
C8_Witness ==
    /\ Zipped
    /\ Len(download_results) = 2
    /\ Len(zip_entries) = 2
    /\ \E f \in output_dir : IsMp3(f) /\ f \notin Range(zip_entries)
    /\ img_dir # {}

(***************************************************************************)
(* Properties of SoundCloudHTMLPageGenerator                               *)
(***************************************************************************)
\* C9: in every state of a generator, after any number of generate_html_page
\* calls, the N-th entry of the page's track list has anchor track-N (numbers
\* from 1, no gap, no repeat) and is the N-th track of the download result in
\* iteration order.
C9_NthAnchorIsTrackN ==
    /\ \A n \in DOMAIN ordered_tracks :
          /\ ordered_tracks[n].anchor_id = [prefix |-> "track-", n |-> n]
          /\ n \in DOMAIN TracksOf(gen_results)
          /\ ordered_tracks[n].mp3_file = TracksOf(gen_results)[n].mp3_file
    /\ rendered.written => rendered.ordered_tracks = ordered_tracks

\* C10: on every call of generate_html_page, the sequential-playback list of
\* the rendered page is as long as the download result has tracks, and its
\* i-th file is the file of the i-th summary entry.
C10_PlaybackListMatchesResult ==
    rendered.written =>
        /\ Len(rendered.all_mp3_files) = TrackCount(gen_results, Len(gen_results))
        /\ Len(rendered.all_mp3_files) = Len(rendered.ordered_tracks)
        /\ \A i \in DOMAIN rendered.all_mp3_files :
              rendered.all_mp3_files[i] = rendered.ordered_tracks[i].mp3_file

(***************************************************************************)
(* Properties of process_strings                                           *)
(***************************************************************************)
\* link extraction is over and found no link in the input
NoUsableInput == pc # "extract" /\ FoundLinks(strings) = <<>>

\* nothing of the later stages has happened: no tool run, no archive, no page
NothingProcessed ==
    /\ download_log = <<>>
    /\ ALL_TRACKS_ZIP \notin output_dir
    /\ INDEX_HTML \notin output_dir
    /\ ~html_page.written

\* A run that found links is stopped by nothing but the absence of the scdl
\* executable: a link that fails to resolve, a tool run that exits non-zero and
\* a file without readable artwork all leave the run on its way to the archive
\* and the page.
ItemFailuresContained ==
    /\ pc = "aborted" => download_log[Len(download_log)].outcome = "missing"
    /\ pc \notin {"done", "aborted"} => ENABLED Next
    /\ pc = "done" => ALL_TRACKS_ZIP \in output_dir /\ html_page.written

\* C11: when link extraction yields an empty list the run short-circuits (no
\* download-tool run, no archive build, no page generation afterwards); in
\* every other run no single failing link, file or artwork extraction keeps
\* the run from reaching archive build and page generation.
C11_ShortCircuitOnlyOnNoLinks ==
    IF NoUsableInput THEN NothingProcessed ELSE ItemFailuresContained

====
